---------------------------- MODULE Spec2Model ----------------------------
(***************************************************************************)
(* HyperLogLog estimator of src/main.rs: the struct HyperLogLog (a vector  *)
(* of u8 registers and the number of index bits), its constructor, add,    *)
(* alpha and count, and the bit helpers of mod helpers.                    *)
(*                                                                         *)
(* A u32 is a function from bit positions 0..31 (0 the least significant)  *)
(* to {0, 1}: the model checker's integers are 32-bit signed and cannot    *)
(* hold 2766284370.  Where a u32 has to be written down or compared        *)
(* arithmetically it is a pair <<hi, lo>> of 16-bit limbs.                 *)
(***************************************************************************)
EXTENDS Integers, Sequences, FiniteSets

VARIABLES
    pc,          \* "start" | "ready" | "failed" | "panicked" of the estimator;
                 \* "helpers" | "returned" of a helper called on its own
    index_bits,  \* HyperLogLog.index_bits (0 while no estimator exists)
    register,    \* HyperLogLog.register, a sequence of u8: the vector's entry i
                 \* is register[i + 1] (<<>> while no estimator exists)
    added,       \* history: the values add has been called with
    last,        \* history: the most recent call and its arguments
    ret          \* what the most recent call returned

vars == <<pc, index_bits, register, added, last, ret>>

---------------------------------------------------------------------------
(* Bounds and program constants *)

\* How many of the values of ValueTable the caller draws from.
NumValues == 5

\* Width of the hash and of every word the helpers handle (u32).
HashBits == 32

\* Largest value of the u8 argument of new.
U8Max == 255

\* The inclusive range new accepts.
MinIndexBits == 4
MaxIndexBits == 16

BitPos == 0 .. (HashBits - 1)

---------------------------------------------------------------------------
(* u32 words *)

\* The u32 whose upper and lower 16 bits are the numbers hi and lo.
U32(hi, lo) ==
    [i \in BitPos |-> IF i < 16 THEN (lo \div (2 ^ i)) % 2
                                ELSE (hi \div (2 ^ (i - 16))) % 2]

RECURSIVE BitsValue(_, _, _)
\* The number held by bits from .. to - 1 of word, bit `from` weighing 1.
BitsValue(word, from, to) ==
    IF from >= to THEN 0
    ELSE (IF word[to - 1] = 1 THEN 2 ^ (to - 1 - from) ELSE 0)
         + BitsValue(word, from, to - 1)

\* The limbs <<hi, lo>> of a word.
Limbs(word) == <<BitsValue(word, 16, 32), BitsValue(word, 0, 16)>>

Zero32 == [i \in BitPos |-> 0]
One32 == [i \in BitPos |-> IF i = 0 THEN 1 ELSE 0]

\* u32::trailing_zeros: 32 for the word 0.
trailing_zeros(word) ==
    IF \A i \in BitPos : word[i] = 0 THEN HashBits
    ELSE CHOOSE i \in BitPos : word[i] = 1 /\ \A j \in 0 .. (i - 1) : word[j] = 0

\* Logical shifts by an amount below the width.
ShiftRight(word, amount) ==
    [i \in BitPos |-> IF i + amount < HashBits THEN word[i + amount] ELSE 0]

ShiftLeft(word, amount) ==
    [i \in BitPos |-> IF i >= amount THEN word[i - amount] ELSE 0]

\* word - 1 modulo 2^32: the bits up to and including the lowest set bit flip.
Dec32(word) ==
    LET z == trailing_zeros(word)
    IN  [i \in BitPos |-> IF i <= z THEN 1 - word[i] ELSE word[i]]

And32(a, b) == [i \in BitPos |-> a[i] * b[i]]

\* An outcome of a u32 expression: a panic or a value.
Panic == [panic |-> TRUE, val |-> Zero32]
Val(word) == [panic |-> FALSE, val |-> word]

\* value >> amount and value << amount.  An amount of 32 or more overflows:
\* a build with overflow checks (the dev profile) panics, one without (the
\* release profile) shifts by the amount's low five bits.
shr(value, amount) ==
    IF amount < HashBits THEN {Val(ShiftRight(value, amount))}
    ELSE {Panic, Val(ShiftRight(value, amount % HashBits))}

shl(value, amount) ==
    IF amount < HashBits THEN {Val(ShiftLeft(value, amount))}
    ELSE {Panic, Val(ShiftLeft(value, amount % HashBits))}

\* u32 -> usize, the identity on numbers.
as_usize(word) == BitsValue(word, 0, HashBits)

---------------------------------------------------------------------------
(* mod helpers *)

\* The values the caller adds, each with the limbs of its Murmur3 digest
\* (seed 0).  "moros" is the string of tests::test_hll_add, hashed as its
\* bytes followed by 0xff; the others are u32 keys, hashed as their four
\* little-endian bytes.
ValueTable ==
    << [value |-> "moros",         hash |-> <<42210, 9810>>],   \* 0xA4E22652
       [value |-> "595716595u32",  hash |-> <<42210, 9812>>],   \* 0xA4E22654
       [value |-> "2015727269u32", hash |-> <<40960, 0>>],      \* 0xA0000000
       [value |-> "1478847555u32", hash |-> <<1, 0>>],          \* 0x00010000
       [value |-> "2009592756u32", hash |-> <<65535, 65535>>],  \* 0xFFFFFFFF
       [value |-> "2326758926u32", hash |-> <<42210, 0>>],      \* 0xA4E20000
       [value |-> "3259472762u32", hash |-> <<0, 0>>] >>        \* 0x00000000

Values == {ValueTable[k].value : k \in 1 .. NumValues}

HashLimbs(value) ==
    ValueTable[CHOOSE k \in 1 .. Len(ValueTable) : ValueTable[k].value = value].hash

hash_value_32(value) == U32(HashLimbs(value)[1], HashLimbs(value)[2])

\* value >> (32 - n)
n_be_bits(value, n) ==
    IF n <= HashBits THEN shr(value, HashBits - n)
    ELSE {Panic, Val(ShiftRight(value, (HashBits - n) % HashBits))}

\* value & ((1 << n) - 1)
n_le_bits(value, n) ==
    {IF s.panic THEN Panic ELSE Val(And32(value, Dec32(s.val))) :
        s \in shl(One32, n)}

\* 2_usize.checked_pow(bits).unwrap(); new passes 4..16 only.
registers_from_bits(bits) == 2 ^ bits

\* 1 / sum of 2^(-x) over the registers.  The sum is held exactly, as its
\* integer part and the set of the binary places of its fraction that are 1;
\* the f64 result stands for the reciprocal of that number.
RECURSIVE CarrySum(_, _, _, _)
CarrySum(hist, place, carry, frac) ==
    IF place = 0 THEN [int |-> hist[0] + carry, frac |-> frac]
    ELSE LET total == hist[place] + carry
         IN  CarrySum(hist, place - 1, total \div 2,
                      IF total % 2 = 1 THEN frac \cup {place} ELSE frac)

\* The histogram of a register vector whose non-zero entries sit at `nonzero`.
Histogram(reg, nonzero, top) ==
    [x \in 0 .. top |->
        IF x = 0 THEN Len(reg) - Cardinality(nonzero)
        ELSE Cardinality({i \in nonzero : reg[i] = x})]

SumOver(reg, nonzero) ==
    LET top == IF nonzero = {} THEN 0
               ELSE CHOOSE x \in {reg[i] : i \in nonzero} :
                        \A i \in nonzero : reg[i] <= x
    IN  CarrySum(Histogram(reg, nonzero, top), top, 0, {})

indicator(reg) ==
    [one_over |-> SumOver(reg, {i \in 1 .. Len(reg) : reg[i] # 0})]

---------------------------------------------------------------------------
(* impl HyperLogLog *)

Digit == <<"0", "1", "2", "3", "4", "5", "6", "7", "8", "9">>

\* Display of a u8: its decimal digits, most significant first.
fmt_u8(n) ==
    IF n < 10 THEN <<Digit[n + 1]>>
    ELSE IF n < 100 THEN <<Digit[(n \div 10) + 1], Digit[(n % 10) + 1]>>
    ELSE <<Digit[(n \div 100) + 1], Digit[((n \div 10) % 10) + 1],
           Digit[(n % 10) + 1]>>

\* vec![elem; n]
vec(elem, n) == <<>> \o [i \in 1 .. n |-> elem]

\* Mutant: the new rank stored whatever the register holds.
max_overwrite(a, b) == a

\* Mutant: the ranks accumulated.
max_sum(a, b) == a + b

\* cmp::max
max(a, b) == IF a >= b THEN a ELSE b

\* Mutant: the range check with an exclusive upper end, 4..16.
new_exclusive(bits) ==
    IF ~(bits \in MinIndexBits .. (MaxIndexBits - 1))
    THEN [kind |-> "Err",
          msg |-> <<"Number of index bits must be more than 0 and less than 9 (was ">>
                  \o fmt_u8(bits) \o <<")">>]
    ELSE [kind |-> "Ok",
          register |-> vec(0, registers_from_bits(bits)),
          index_bits |-> bits]

\* Mutant: an argument out of range replaced by the default of 4 index bits.
new_default(bits) ==
    LET used == IF bits \in MinIndexBits .. MaxIndexBits THEN bits ELSE MinIndexBits
    IN  [kind |-> "Ok",
         register |-> vec(0, registers_from_bits(used)),
         index_bits |-> used]

\* HyperLogLog::new: Err(String) outside 4..=16, else Ok(Self) with
\* registers_from_bits(bits) zeroed registers.
new(bits) ==
    IF ~(bits \in MinIndexBits .. MaxIndexBits)
    THEN [kind |-> "Err",
          msg |-> <<"Number of index bits must be more than 0 and less than 9 (was ">>
                  \o fmt_u8(bits) \o <<")">>]
    ELSE LET m == registers_from_bits(bits)
         IN  [kind |-> "Ok",
              register |-> vec(0, m),
              index_bits |-> bits]

\* Mutant: the count of trailing zeros without the 1 added.
zeros_plain(non_index) == trailing_zeros(non_index)

\* The rank add offers: non_index.trailing_zeros() as u8 + 1.
zeros(non_index) == trailing_zeros(non_index) + 1

\* HyperLogLog::add on self = [register, index_bits]: the outcomes, each a
\* panic or the register vector after the call.
add(self, value) ==
    LET hash == hash_value_32(value)
    IN  {IF be.panic \/ le.panic
         THEN [panic |-> TRUE, register |-> self.register]
         ELSE LET register_index == as_usize(be.val)
              IN  IF register_index >= Len(self.register)
                  THEN [panic |-> TRUE, register |-> self.register]
                  ELSE [panic |-> FALSE,
                        register |-> [self.register EXCEPT
                                        ![register_index + 1] =
                                            max(zeros(le.val), @)]] :
            be \in n_be_bits(hash, self.index_bits),
            le \in n_le_bits(hash, HashBits - self.index_bits)}

\* Mutant: the breakpoints taken with <=.
alpha_inclusive(reg) ==
    LET m == Len(reg)
    IN  IF m <= 32 THEN <<673, 1000>>
        ELSE IF m <= 64 THEN <<697, 1000>>
        ELSE IF m <= 128 THEN <<709, 1000>>
        ELSE <<7213 * m, 10 * (1000 * m + 1079)>>

\* HyperLogLog::alpha, a fraction <<numerator, denominator>>:
\* 0.7213 / (1 + 1.079 / m) = 7213 m / (10 (1000 m + 1079)).
alpha(reg) ==
    LET m == Len(reg)
    IN  IF m < 32 THEN <<673, 1000>>
        ELSE IF m < 64 THEN <<697, 1000>>
        ELSE IF m < 128 THEN <<709, 1000>>
        ELSE <<7213 * m, 10 * (1000 * m + 1079)>>

\* HyperLogLog::count: alpha * m^2 * indicator, held as its three factors.
count(reg) ==
    [kind |-> "f64",
     alpha |-> alpha(reg),
     m_pow_2 |-> [base |-> Len(reg), exp |-> 2],
     indicator |-> indicator(reg)]

---------------------------------------------------------------------------
(* The estimator's life: constructed once, then add and count in any order *)

NoWord == <<0, 0>>

\* repeat: the call is an add of a value added before, or a count that
\* directly follows a count.
Call(op, n, value, word, repeat) ==
    [op |-> op, n |-> n, value |-> value, word |-> word, repeat |-> repeat]

Init ==
    /\ pc = "start"
    /\ index_bits = 0
    /\ register = <<>>
    /\ added = {}
    /\ last = Call("none", 0, "", NoWord, FALSE)
    /\ ret = [kind |-> "none"]

\* HyperLogLog::new(bits)
New(bits) ==
    /\ pc = "start"
    /\ LET r == new(bits)
       IN  /\ ret' = [kind |-> r.kind,
                      msg |-> IF r.kind = "Err" THEN r.msg ELSE <<>>]
           /\ IF r.kind = "Ok"
              THEN /\ pc' = "ready"
                   /\ register' = r.register
                   /\ index_bits' = r.index_bits
              ELSE /\ pc' = "failed"
                   /\ UNCHANGED <<register, index_bits>>
    /\ last' = Call("new", bits, "", NoWord, FALSE)
    /\ UNCHANGED added

\* hll.add(&value)
Add(value) ==
    /\ pc = "ready"
    /\ \E o \in add([register |-> register, index_bits |-> index_bits], value) :
          /\ pc' = IF o.panic THEN "panicked" ELSE "ready"
          /\ register' = o.register
          /\ ret' = [kind |-> IF o.panic THEN "panic" ELSE "unit"]
    /\ added' = added \cup {value}
    /\ last' = Call("add", 0, value, NoWord, value \in added)
    /\ UNCHANGED index_bits

\* Mutant: a count that reads the registers and clears them.
Count_clears ==
    /\ pc = "ready"
    /\ ret' = count(register)
    /\ register' = vec(0, Len(register))
    /\ last' = Call("count", 0, "", NoWord, last.op = "count")
    /\ UNCHANGED <<pc, index_bits, added>>

\* hll.count()
Count ==
    /\ pc = "ready"
    /\ ret' = count(register)
    /\ last' = Call("count", 0, "", NoWord, last.op = "count")
    /\ UNCHANGED <<pc, index_bits, register, added>>

Next ==
    \/ \E bits \in 0 .. U8Max : New(bits)
    \/ \E value \in Values : Add(value)
    \/ Count

Spec == Init /\ [][Next]_vars

---------------------------------------------------------------------------
(* The helpers on their own: n_be_bits and n_le_bits applied to a word and *)
(* a bit count n, 0 <= n <= 32                                             *)

\* The words the helpers are applied to: the digests of ValueTable and the
\* words of tests::test_n_be_bits and tests::test_n_le_bits.
Words ==
    {ValueTable[k].hash : k \in 1 .. Len(ValueTable)}
        \cup {<<41984, 0>>, <<0, 164>>}

\* What a helper call returned: a panic, or a u32 held as its limbs.
Outcome(o) == [kind |-> IF o.panic THEN "panic" ELSE "u32", val |-> Limbs(o.val)]

InitHelpers ==
    /\ pc = "helpers"
    /\ index_bits = 0
    /\ register = <<>>
    /\ added = {}
    /\ last = Call("none", 0, "", NoWord, FALSE)
    /\ ret = [kind |-> "none"]

\* helpers::n_be_bits(&word, &n)
CallNBeBits(word, n) ==
    /\ pc = "helpers"
    /\ \E o \in n_be_bits(U32(word[1], word[2]), n) : ret' = Outcome(o)
    /\ last' = Call("n_be_bits", n, "", word, FALSE)
    /\ pc' = "returned"
    /\ UNCHANGED <<index_bits, register, added>>

\* helpers::n_le_bits(&word, &n)
CallNLeBits(word, n) ==
    /\ pc = "helpers"
    /\ \E o \in n_le_bits(U32(word[1], word[2]), n) : ret' = Outcome(o)
    /\ last' = Call("n_le_bits", n, "", word, FALSE)
    /\ pc' = "returned"
    /\ UNCHANGED <<index_bits, register, added>>

NextHelpers ==
    \/ \E word \in Words, n \in 0 .. HashBits : CallNBeBits(word, n)
    \/ \E word \in Words, n \in 0 .. HashBits : CallNLeBits(word, n)

SpecHelpers == InitHelpers /\ [][NextHelpers]_vars

---------------------------------------------------------------------------
(* Arithmetic on the limbs <<hi, lo>> of a 32-bit number, used to state    *)
(* the properties below independently of the bit operations above          *)

\* floor(w / 2^k), 0 <= k <= 32
DivPow2(w, k) ==
    IF k >= 32 THEN <<0, 0>>
    ELSE IF k >= 16 THEN <<0, w[1] \div (2 ^ (k - 16))>>
    ELSE <<w[1] \div (2 ^ k),
           (w[2] \div (2 ^ k)) + (w[1] % (2 ^ k)) * (2 ^ (16 - k))>>

\* w mod 2^n, 0 <= n <= 32
ModPow2(w, n) ==
    IF n >= 32 THEN w
    ELSE IF n >= 16 THEN <<w[1] % (2 ^ (n - 16)), w[2]>>
    ELSE <<0, w[2] % (2 ^ n)>>

\* The number of times 2 divides x, for 0 < x < 2^16.
TwoAdic(x) == CHOOSE k \in 0 .. 15 : x % (2 ^ k) = 0 /\ (x \div (2 ^ k)) % 2 = 1

\* The number of trailing zero bits of a non-zero w.
TrailingZeroBits(w) ==
    IF w[2] # 0 THEN TwoAdic(w[2]) ELSE 16 + TwoAdic(w[1])

ValidBits == MinIndexBits .. MaxIndexBits

\* ret carries a decimal number between the message's text and its ")".
RECURSIVE ParseDecimal(_)
ParseDecimal(digits) ==
    IF digits = <<>> THEN 0
    ELSE 10 * ParseDecimal(SubSeq(digits, 1, Len(digits) - 1))
         + (CHOOSE d \in 0 .. 9 : Digit[d + 1] = digits[Len(digits)])

CarriedValue(msg) == ParseDecimal(SubSeq(msg, 2, Len(msg) - 1))

---------------------------------------------------------------------------
(* Properties *)

\* C1: for every p with 4 <= p <= 16, new(p) succeeds and returns an
\* estimator whose stored precision is p and whose register vector has
\* exactly 2^p entries, every one 0.
C1_NewValid ==
    (last.op = "new" /\ last.n \in ValidBits) =>
        /\ pc = "ready"
        /\ ret.kind = "Ok"
        /\ index_bits = last.n
        /\ Len(register) = 2 ^ last.n
        /\ \A i \in 1 .. Len(register) : register[i] = 0

\* C1 witness: new(16) has returned an estimator.
C1_Witness ==
    /\ last.op = "new" /\ last.n = MaxIndexBits
    /\ pc = "ready" /\ Len(register) = 65536

C4_RankBound ==
    pc = "ready" =>
        \A i \in 1 .. Len(register) :
            register[i] \in 0 .. (HashBits - index_bits + 1)

\* C9 (as claimed): for 0 <= n <= 32, n_be_bits(v, n) returns
\* floor(v / 2^(32 - n)) and n_le_bits(v, n) returns v mod 2^n, neither
\* overflowing a shift.
C9_HelpersTotal ==
    /\ last.op = "n_be_bits" =>
          /\ ret.kind = "u32"
          /\ ret.val = DivPow2(last.word, HashBits - last.n)
    /\ last.op = "n_le_bits" =>
          /\ ret.kind = "u32"
          /\ ret.val = ModPow2(last.word, last.n)

\* What the claims say add does with a value at precision p: the register it
\* selects and, where the bottom 32 - p bits of the hash are not all zero, the
\* rank it offers.
ClaimedIndex(value, p) == DivPow2(HashLimbs(value), HashBits - p)[2]

ClaimedRemainder(value, p) == ModPow2(HashLimbs(value), HashBits - p)

ClaimedRank(value, p) == TrailingZeroBits(ClaimedRemainder(value, p)) + 1

Larger(a, b) == IF a >= b THEN a ELSE b

\* C3: where the bottom 32 - p bits of the value's hash h are not all zero,
\* add(value) sets registers[i] to max(old registers[i], rank), i the top p
\* bits of h and rank the number of trailing zero bits of the remainder plus
\* 1, and leaves every other register alone.
C3_AddSetsMax ==
    [][\A value \in Values :
          ( /\ pc = "ready"
            /\ last'.op = "add" /\ last'.value = value
            /\ ClaimedRemainder(value, index_bits) # <<0, 0>> )
          => register' =
                [register EXCEPT ![ClaimedIndex(value, index_bits) + 1] =
                    Larger(@, ClaimedRank(value, index_bits))]]_vars

\* C3 witness: the run of tests::test_hll_add, p = 4 and one add of "moros"
\* (hash 2766284370), has left 2 in register 10 and 0 in all others.
C3_Witness ==
    /\ index_bits = 4
    /\ last.op = "add" /\ last.value = "moros"
    /\ HashLimbs("moros") = <<42210, 9810>>
    /\ register = <<0, 0, 0, 0, 0, 0, 0, 0, 0, 0, 2, 0, 0, 0, 0, 0>>

\* The registers a step changes.
Changed == {i \in 1 .. Len(register) : register'[i] # register[i]}

AtMostOneRaised(changed) ==
    /\ Cardinality(changed) <= 1
    /\ \A i \in changed : register'[i] > register[i]

\* C5: add leaves the precision and the number of registers unchanged,
\* changes at most one register and lowers none; from new(p) on, through any
\* add and count calls, there are 2^p registers and none ever decreases.
C5_AddFrame ==
    [][ /\ pc' = "ready" => Len(register') = 2 ^ index_bits'
        /\ pc = "ready" =>
              /\ index_bits' = index_bits
              /\ Len(register') = Len(register)
              /\ register' # register => AtMostOneRaised(Changed) ]_vars

\* C5 witness: a third distinct value has been added to an estimator of 8
\* index bits (as main builds it) and a register holds a rank.
C5_Witness ==
    /\ pc = "ready" /\ index_bits = 8
    /\ last.op = "add" /\ Cardinality(added) = 3
    /\ \E v \in added : register[ClaimedIndex(v, index_bits) + 1] > 0

\* C6: add of a value that was added before, at any earlier point, leaves
\* the whole register vector, and with it the estimate, as it was.
C6_ReAddIdempotent ==
    [][\A value \in Values :
          ( /\ pc = "ready"
            /\ last'.op = "add" /\ last'.value = value
            /\ value \in added )
          => /\ register' = register
             /\ count(register') = count(register)]_vars

\* C6 witness: a value added earlier, with another added in between, has
\* just been added again.
C6_Witness ==
    /\ pc = "ready"
    /\ last.op = "add" /\ last.value = "moros" /\ last.repeat
    /\ Cardinality(added) >= 2
    /\ register[ClaimedIndex("moros", index_bits) + 1] > ClaimedRank("moros", index_bits)

\* C7: count never mutates state: it leaves the register vector and the
\* precision unchanged, and two consecutive calls return the same value.
C7_CountReadOnly ==
    [][last'.op = "count" =>
          /\ register' = register
          /\ index_bits' = index_bits
          /\ pc' = pc
          /\ ret'.kind = "f64"
          /\ last.op = "count" => ret' = ret]_vars

\* C7 witness: count has returned twice in a row on an estimator that holds
\* two values.
C7_Witness ==
    /\ last.op = "count" /\ last.repeat /\ ret.kind = "f64"
    /\ Cardinality(added) = 2

\* C8: alpha depends only on the register count m: 0.673 for m < 32, 0.697
\* for 32 <= m < 64, 0.709 for 64 <= m < 128, 0.7213 / (1 + 1.079 / m) for
\* m >= 128; so m = 32 gives 0.697, m = 64 gives 0.709 and m = 128 the
\* formula.
C8_AlphaTable ==
    (last.op = "count" /\ ret.kind = "f64") =>
        LET m == Len(register)
        IN  /\ m < 32 => ret.alpha = <<673, 1000>>
            /\ (32 <= m /\ m < 64) => ret.alpha = <<697, 1000>>
            /\ (64 <= m /\ m < 128) => ret.alpha = <<709, 1000>>
            /\ m >= 128 => ret.alpha = <<7213 * m, 10 * (1000 * m + 1079)>>
            /\ m = 128 => ret.alpha = <<923264, 1290790>>
            /\ ret.alpha = alpha(vec(0, m))

\* C8 witness: count has returned on an estimator of 32 registers that is
\* not empty.
C8_Witness ==
    /\ last.op = "count" /\ ret.kind = "f64"
    /\ Len(register) = 32 /\ added # {}
    /\ ret.alpha = <<697, 1000>>

\* The register and the rank add computes for a value at precision p.
AddIndex(value, p) ==
    as_usize((CHOOSE o \in n_be_bits(hash_value_32(value), p) : ~o.panic).val)

AddRank(value, p) ==
    zeros((CHOOSE o \in n_le_bits(hash_value_32(value), HashBits - p) : ~o.panic).val)

\* C10: the register vector depends only on the set of values added, not on
\* their order or multiplicity: each register holds the largest rank add
\* computes for the values added that select it, and 0 if there is none.
C10_OrderIndependent ==
    pc = "ready" =>
        LET touched == {AddIndex(v, index_bits) + 1 : v \in added}
        IN  /\ \A i \in 1 .. Len(register) : i \in touched \/ register[i] = 0
            /\ \A i \in touched :
                  LET ranks == {AddRank(v, index_bits) :
                                  v \in {u \in added : AddIndex(u, index_bits) + 1 = i}}
                  IN  /\ register[i] \in ranks
                      /\ \A r \in ranks : r <= register[i]

\* C10 witness: two values that select the same register have been added,
\* the one of lower rank last.
C10_Witness ==
    /\ pc = "ready" /\ index_bits = 4
    /\ added = {"moros", "595716595u32"}
    /\ last.op = "add" /\ last.value = "moros"
    /\ register[11] = 3

=============================================================================
